---- MODULE Spec2Model ----
(***************************************************************************)
(* Model of the review collector of sentiment-analysis-week2:              *)
(* PlayStoreScraper in src/src/data_collection.py.                         *)
(*                                                                         *)
(* scrape_all_banks runs two loops over the configured banks: phase 1      *)
(* probes every app id with get_app_info, phase 2 calls scrape_reviews     *)
(* (one upstream reviews() request, retried up to max_retries times) and   *)
(* appends the processed records to all_reviews.  The upstream source is   *)
(* the environment: every call either raises or answers, and the answer    *)
(* is any list of at most `count` raw records.  Time is a logical clock    *)
(* that only time.sleep advances.                                          *)
(***************************************************************************)
EXTENDS Integers, Sequences, FiniteSets, TLC

\* ---------------------------------------------------------------- bounds
\* SCRAPING_CONFIG['max_retries'] (the configuration value itself is not
\* part of the sources; the model bounds it).
MaxRetries == 2

\* SCRAPING_CONFIG['reviews_per_bank'], the target count per bank.
ReviewsPerBank == 2

\* Rows a bank can have in a data set handed to the data phase.
MaxPerBank == 2

\* min_reviews of validate_data_quality (minAcceptableCountPerEntity).
MinReviews == 2

\* Largest thumbsUpCount of a raw record.
MaxThumbs == 1

\* count of scrape_bank_reviews (reviews_per_bank of the variant with
\* candidate app ids).
VariantCount == 2

\* The page size of that variant, min(100, ...), scaled down.
BatchMax == 1

\* ------------------------------------------------------ program constants
\* The phases of the pipeline, in the order they are run.
PhaseNames ==
    <<"data_collection", "sentiment_analysis", "thematic_analysis", "visualization">>

NumPhases == Len(PhaseNames)

\* The phases after the data phase.
LaterPhases == 2..NumPhases

\* Candidate app ids per bank in ETHIOPIAN_BANKS.
NumCandidates == 4
\* Scores of the store: 1 to 5 stars.
MaxScore == 5
\* max_missing_pct of validate_data_quality, in percent.
MaxMissingPct == 10

\* Variant of BankCodes: a configuration that lost its last bank.
BankCodesWithoutDashen == <<"cbe", "awash">>

\* The three configured banks, in configuration order.
BankCodes == <<"cbe", "awash", "dashen">>

NumBanks == Len(BankCodes)

Banks == 1..NumBanks

\* time.sleep(5) before a retry.
RetrySleep == 5

\* time.sleep(2) after each bank of phase 2.
BankDelay == 2

\* A raw record of the upstream source is represented by its 'reviewId'
\* entry: a review id of the store, or NoId for a raw record that has no
\* 'reviewId' key.
StoreIds == {"gp:1"}

NoId == "no-id"

RawIds == StoreIds \cup {NoId}

\* Continuation tokens the upstream hands back with a page (None or a cursor).
Tokens == {"None", "tok"}

VARIABLES
    pc,            \* "probe" (phase 1), "fetch" (phase 2), "done", "crashed"
    bankIdx,       \* position of the running for-loop in the banks
    attempt,       \* loop variable of the retry loop of scrape_reviews
    appInfoList,   \* app_info_list: the banks whose probe succeeded, in order
    allReviews,    \* all_reviews: the processed records, in order
    warned,        \* banks for which "WARNING: No reviews collected" was printed
    clock,         \* logical time: the sum of all sleeps so far
    returnedDf,    \* <<df>>: what scrape_all_banks returned, <<>> before it returns
    savedCsv,      \* <<content>> of DATA_PATHS['raw_reviews'], <<>> if no file
    \* ---- observation of the upstream traffic (not program state)
    attemptsMade,  \* per bank: number of reviews() requests issued
    succeeded,     \* per bank: a reviews() request has answered
    rawOf,         \* per bank: the raw records of the answer
    lastSuccessAt, \* clock of the latest successful upstream call, -1 if none
    lastGap,       \* clock distance of the two latest successful calls, -1 if none
    lastPair,      \* the banks of the two latest successful calls, 0 if none
    probesMade,    \* per bank: number of app() requests issued
    \* ---- configuration and environment of the run
    bankNames,     \* the banks that have an entry in BANK_NAMES
    cancelRequested \* a run-level cancellation or timeout signal has been raised

collectorVars == <<pc, bankIdx, attempt, appInfoList, allReviews, warned, clock,
                   returnedDf, savedCsv,
                   attemptsMade, succeeded, rawOf, lastSuccessAt, lastGap,
                   lastPair, probesMade, bankNames, cancelRequested>>

\* ---- the data phase (main.py, run_analysis.py)
\* A data set is held as its row counts: per bank the number of rows with
\* a review text (present) and without one (missing).
VARIABLES
    phPc,           \* "start", "done"
    phRaw,          \* raw_reviews: what scrape_all_banks returned
    phProcessed,    \* <<processed_df>>: what run_pipeline returned, <<>> before
    phVerdict,      \* what validate_data_quality returned: "none", "pass", "fail"
    phReported,     \* the verdict the caller can read afterwards, "none" if none
    phMetrics,      \* quality_metrics were stored (results / save_metrics)
    phRawCsv,       \* <<content>> of data/raw/raw_reviews.csv, <<>> if no file
    phProcessedCsv, \* <<content>> of data/processed/processed_reviews.csv
    phStatus,       \* execution_phases['data_collection']['status'], or "none"
    phReturn        \* return value of the phase: "none", "True", "False"

phaseVars == <<phPc, phRaw, phProcessed, phVerdict, phReported, phMetrics,
               phRawCsv, phProcessedCsv, phStatus, phReturn>>

\* ---- one call of process_reviews with complete raw records
VARIABLES
    recPc,    \* "start", "done"
    recIn,    \* reviews_data: the raw records handed to process_reviews
    recBank,  \* bank_code
    recOut    \* the list process_reviews returned

recordVars == <<recPc, recIn, recBank, recOut>>

\* ---- EthiopianBankReviewScraper, the variant with candidate app ids
VARIABLES
    rvPc,          \* "find" (find_working_app_id), "scrape", "done"
    rvBank,        \* position of the loop of scrape_all_banks
    rvCand,        \* position of the loop over bank_config["app_ids"]
    workingAppIds, \* working_app_ids: per bank the selected candidate, 0 if none
    probeLog,      \* per bank: the outcomes of the probes, in the order issued
    rvScraped,     \* len(scraped_reviews) of the running scrape_bank_reviews
    rvToken,       \* continuation_token of the running scrape_bank_reviews
    rvReviews      \* all_reviews: the bank of each record, in order

resolverVars == <<rvPc, rvBank, rvCand, workingAppIds, probeLog, rvScraped,
                  rvToken, rvReviews>>

\* ---- the complete pipeline (main.py, run_analysis.py)
\* Phase 1 is the data phase above (its result is phReturn, its entry in
\* execution_phases is phStatus); these variables hold the later phases.
VARIABLES
    plEntry,   \* the entry point of the run: "main" or "runner"
    plOutcome, \* per later phase: what its call returned, "none" before
    plStatus,  \* per later phase: its entry in execution_phases, or "none"
    plReport,  \* _generate_final_report has run to its end
    plReturn   \* what the run returned: "none", "True", "False", "raised"

pipelineVars == <<plEntry, plOutcome, plStatus, plReport, plReturn>>

auxVars == <<phaseVars, recordVars, resolverVars, pipelineVars>>

vars == <<collectorVars, auxVars>>

\* ---------------------------------------------------------------- helpers
RECURSIVE SeqsUpTo(_, _)
\* All sequences over S of length at most n.
SeqsUpTo(S, n) ==
    IF n = 0 THEN {<<>>}
    ELSE LET shorter == SeqsUpTo(S, n - 1)
         IN  shorter \cup {Append(s, x) : s \in {t \in shorter : Len(t) = n - 1}, x \in S}

\* The answers reviews(app_id, count=count) can give: at most count raw records.
Upstream(count) == SeqsUpTo(RawIds, count)

\* review.get('reviewId', ''): the id of the processed record.
ReviewId(raw) == IF raw = NoId THEN "" ELSE raw

\* process_reviews: one processed record per raw record, in order, no filtering.
ProcessReviews(reviews_data, b) ==
    [k \in 1..Len(reviews_data) |->
        [review_id |-> ReviewId(reviews_data[k]), bank_code |-> BankCodes[b]]]

\* The count handed to reviews(): scrape_reviews(app_id, self.reviews_per_bank).
FetchCount == ReviewsPerBank

\* Variant of RetryAgain: the first failed attempt already gives up.
RetryAgainNever(a) == FALSE

\* Variant of RetryAgain: max_retries read as the number of retries after the
\* first attempt (range(max_retries + 1), attempt < max_retries).
RetryAgainOffByOne(a) == a < MaxRetries

\* The retry loop goes round again after a failed attempt:
\* `for attempt in range(max_retries)` and `if attempt < max_retries - 1`.
RetryAgain(a) == a < MaxRetries - 1 /\ a + 1 < MaxRetries

\* Variant of FailureOutcome: the last failed attempt re-raises the exception.
FailureOutcomeRaise(a) == IF RetryAgain(a) THEN "retry" ELSE "raise"

\* What the except branch does after failed attempt a: sleep and retry, or
\* return the empty list.  It never re-raises.
FailureOutcome(a) == IF RetryAgain(a) THEN "retry" ELSE "return_empty"

\* Variant of ProbeLoopEnds: the loop of phase 1 stops one bank early.
ProbeLoopEndsEarly(i) == i >= NumBanks - 1

\* The for-loop of phase 1 has no bank left after bank i.
ProbeLoopEnds(i) == i = NumBanks

\* Variant of BackoffAfter: the loop goes round again at once.
BackoffNone(a) == 0

\* The delay applied after failed attempt a before the next attempt:
\* time.sleep(5), the same for every attempt.
BackoffAfter(a) == RetrySleep

\* Variant of CollectedAfter: the processed records are assigned to
\* all_reviews (all_reviews = processed) and not appended to it.
CollectedAfterAssign(all, reviews_data, b) ==
    IF reviews_data # <<>> THEN ProcessReviews(reviews_data, b) ELSE all

\* all_reviews after the loop body of phase 2 has seen reviews_data.
CollectedAfter(all, reviews_data, b) ==
    IF reviews_data # <<>> THEN all \o ProcessReviews(reviews_data, b) ELSE all

\* Variant of NextIndex: a `break` in the branch that prints the warning.
NextIndexBreakOnEmpty(i, reviews_data) ==
    IF reviews_data = <<>> THEN NumBanks + 1 ELSE i + 1

\* Variant of NextIndex: the same bank is fetched again as long as it yields
\* records, whatever has been collected already.
NextIndexRefetch(i, reviews_data) ==
    IF reviews_data # <<>> THEN i ELSE i + 1

\* Variant of NextIndex: a bank that yielded nothing is requested again.
NextIndexRetryEmpty(i, reviews_data) ==
    IF reviews_data = <<>> THEN i ELSE i + 1

\* The bank the for-loop of phase 2 turns to after bank i returned reviews_data.
NextIndex(i, reviews_data) == i + 1

\* ------------------------------------------------------------------- Init
InitCollector ==
    /\ pc = "probe"
    /\ bankIdx = 1
    /\ attempt = 0
    /\ appInfoList = <<>>
    /\ allReviews = <<>>
    /\ warned = {}
    /\ clock = 0
    /\ returnedDf = <<>>
    /\ savedCsv = <<>>
    /\ attemptsMade = [b \in Banks |-> 0]
    /\ succeeded = [b \in Banks |-> FALSE]
    /\ rawOf = [b \in Banks |-> <<>>]
    /\ lastSuccessAt = -1
    /\ lastGap = -1
    /\ lastPair = <<0, 0>>
    /\ probesMade = [b \in Banks |-> 0]
    /\ cancelRequested = FALSE

\* The data set without a row.
EmptyData == [b \in Banks |-> [present |-> 0, missing |-> 0]]

\* The data phase has not been entered.
PhaseIdle ==
    /\ phPc = "start"
    /\ phRaw = EmptyData
    /\ phProcessed = <<>>
    /\ phVerdict = "none"
    /\ phReported = "none"
    /\ phMetrics = FALSE
    /\ phRawCsv = <<>>
    /\ phProcessedCsv = <<>>
    /\ phStatus = "none"
    /\ phReturn = "none"

\* process_reviews has not been called on its own.
RecordIdle ==
    /\ recPc = "start"
    /\ recIn = <<>>
    /\ recBank = 1
    /\ recOut = <<>>

\* The later phases of the pipeline have not been entered.
LaterPhasesIdle ==
    /\ plOutcome = [p \in LaterPhases |-> "none"]
    /\ plStatus = [p \in LaterPhases |-> "none"]
    /\ plReport = FALSE
    /\ plReturn = "none"

\* No pipeline is run.
PipelineIdle == plEntry = "main" /\ LaterPhasesIdle

\* The scraper with candidate app ids, just constructed.
InitResolver ==
    /\ rvPc = "find"
    /\ rvBank = 1
    /\ rvCand = 1
    /\ workingAppIds = [b \in Banks |-> 0]
    /\ probeLog = [b \in Banks |-> <<>>]
    /\ rvScraped = 0
    /\ rvToken = "None"
    /\ rvReviews = <<>>

\* The run starts with a complete configuration: every bank has a name.
Init ==
    /\ InitCollector
    /\ bankNames = Banks
    /\ PhaseIdle
    /\ RecordIdle
    /\ InitResolver
    /\ PipelineIdle

\* A successful upstream call for bank b at the current clock.
NoteSuccess(b) ==
    /\ lastSuccessAt' = clock
    /\ lastGap' = IF lastSuccessAt = -1 THEN -1 ELSE clock - lastSuccessAt
    /\ lastPair' = <<lastPair[2], b>>

\* ---------------------------------------------------------------- actions
\* One iteration of phase 1.  The loop body first prints
\* self.bank_names[bank_code]: for a bank without a name that lookup raises
\* KeyError, which nothing in scrape_all_banks catches.  Otherwise
\* get_app_info(app_id) is called: app() answers (the info is appended) or
\* raises (get_app_info returns None and the bank is left out of
\* app_info_list).  No sleep follows.
\* (Phase 2 looks the name up again; phase 1 has then found it for every bank.)
GetAppInfo ==
    /\ pc = "probe"
    /\ bankIdx \in Banks
    /\ IF bankIdx \notin bankNames
         THEN /\ pc' = "crashed"
              /\ UNCHANGED <<bankIdx, appInfoList, lastSuccessAt, lastGap, lastPair,
                             probesMade>>
         ELSE /\ probesMade' = [probesMade EXCEPT ![bankIdx] = @ + 1]
              /\ \E ok \in BOOLEAN :
                   /\ appInfoList' = IF ok THEN Append(appInfoList, bankIdx)
                                          ELSE appInfoList
                   /\ IF ok THEN NoteSuccess(bankIdx)
                            ELSE UNCHANGED <<lastSuccessAt, lastGap, lastPair>>
              /\ IF ProbeLoopEnds(bankIdx)
                   THEN pc' = "fetch" /\ bankIdx' = 1
                   ELSE pc' = "probe" /\ bankIdx' = bankIdx + 1
    /\ UNCHANGED <<attempt, allReviews, warned, clock, attemptsMade, succeeded, rawOf,
                   returnedDf, savedCsv, bankNames, cancelRequested, auxVars>>

\* pd.DataFrame(all_reviews): one row per record, in the order of the list.
DataFrame(records) == [k \in 1..Len(records) |-> records[k]]

\* Phase 3, which follows the loop of phase 2 at once: when something was
\* collected the frame is written to the raw reviews file and returned;
\* otherwise the file is not touched and an empty frame is returned.
SaveAndReturn(all) ==
    /\ savedCsv' = IF all # <<>> THEN <<DataFrame(all)>> ELSE savedCsv
    /\ returnedDf' = <<DataFrame(all)>>

\* The end of one loop body of phase 2, reviews_data being what
\* scrape_reviews returned: collect or warn, sleep, next bank; after the
\* last bank the run saves and returns.
FinishBank(b, reviews_data) ==
    /\ allReviews' = CollectedAfter(allReviews, reviews_data, b)
    /\ IF NextIndex(b, reviews_data) \in Banks
         THEN UNCHANGED <<returnedDf, savedCsv>>
         ELSE SaveAndReturn(CollectedAfter(allReviews, reviews_data, b))
    /\ warned' = IF reviews_data # <<>> THEN warned ELSE warned \cup {b}
    /\ clock' = clock + BankDelay
    /\ attempt' = 0
    /\ bankIdx' = NextIndex(b, reviews_data)
    /\ pc' = IF NextIndex(b, reviews_data) \in Banks THEN "fetch" ELSE "done"

\* One attempt of scrape_reviews for the current bank of phase 2: one
\* reviews() request.  An answer ends the call and its records are returned;
\* the continuation token is dropped (`result, _ = reviews(...)`).
ScrapeAttempt ==
    /\ pc = "fetch"
    /\ bankIdx \in Banks
    /\ attemptsMade' = [attemptsMade EXCEPT ![bankIdx] = @ + 1]
    /\ \/ \E result \in Upstream(FetchCount), token \in Tokens :
            /\ succeeded' = [succeeded EXCEPT ![bankIdx] = TRUE]
            /\ rawOf' = [rawOf EXCEPT ![bankIdx] = result]
            /\ NoteSuccess(bankIdx)
            /\ FinishBank(bankIdx, result)
       \/ /\ UNCHANGED <<succeeded, rawOf, lastSuccessAt, lastGap, lastPair>>
          /\ CASE FailureOutcome(attempt) = "retry" ->
                    /\ clock' = clock + BackoffAfter(attempt)
                    /\ attempt' = attempt + 1
                    /\ UNCHANGED <<pc, bankIdx, allReviews, warned, returnedDf, savedCsv>>
               [] FailureOutcome(attempt) = "return_empty" ->
                    FinishBank(bankIdx, <<>>)
               [] OTHER ->  \* the exception leaves scrape_reviews and the run
                    /\ pc' = "crashed"
                    /\ UNCHANGED <<bankIdx, attempt, allReviews, warned, clock,
                                   returnedDf, savedCsv>>
    /\ UNCHANGED <<appInfoList, probesMade, bankNames, cancelRequested, auxVars>>

Next == GetAppInfo \/ ScrapeAttempt

Spec == Init /\ [][Next]_vars

\* The run is sequential code that keeps executing, and every upstream
\* call comes back (with an answer or an exception): a step that can be
\* taken is taken.
FairSpec == Init /\ [][Next]_vars /\ WF_vars(Next)

\* ------------------------------------------- runs with any configuration
\* BANK_NAMES may lack the name of any of the banks that have an app id.
InitConfig ==
    /\ InitCollector
    /\ bankNames \in SUBSET Banks
    /\ PhaseIdle
    /\ RecordIdle
    /\ InitResolver
    /\ PipelineIdle

SpecConfig == InitConfig /\ [][Next]_vars

\* ------------------------------------------------ runs that are cancelled
\* The environment raises the run-level cancellation signal while the run
\* is under way.  No statement of the collector reads such a signal.
Cancel ==
    /\ pc \in {"probe", "fetch"}
    /\ ~cancelRequested
    /\ cancelRequested' = TRUE
    /\ UNCHANGED <<pc, bankIdx, attempt, appInfoList, allReviews, warned, clock,
                   returnedDf, savedCsv, attemptsMade, succeeded, rawOf,
                   lastSuccessAt, lastGap, lastPair, probesMade, bankNames, auxVars>>

NextCancel == Next \/ Cancel

SpecCancel == Init /\ [][NextCancel]_vars

\* ------------------------------------------------------- the data phase
\* The rows one bank can have.
BankRows ==
    {r \in [present : 0..MaxPerBank, missing : 0..MaxPerBank] :
        r.present + r.missing <= MaxPerBank}

\* The data sets of the model.
Datasets == [Banks -> BankRows]

\* len(df[df bank == b]).
RowsOf(data, b) == data[b].present + data[b].missing

RECURSIVE TotalFrom(_, _)
\* Number of rows of banks b..NumBanks.
TotalFrom(data, b) ==
    IF b > NumBanks THEN 0 ELSE RowsOf(data, b) + TotalFrom(data, b + 1)

RECURSIVE MissingFrom(_, _)
\* Number of rows without text of banks b..NumBanks.
MissingFrom(data, b) ==
    IF b > NumBanks THEN 0 ELSE data[b].missing + MissingFrom(data, b + 1)

\* Variant of ValidateDataQuality: the minimum is checked against the total
\* number of rows, not against each bank.
ValidateTotalOnly(data, min_reviews, max_missing_pct) ==
    /\ TotalFrom(data, 1) >= min_reviews
    /\ MissingFrom(data, 1) * 100 <= max_missing_pct * TotalFrom(data, 1)

RECURSIVE BanksMeetMinimumFrom(_, _, _)
\* Banks b..NumBanks are checked one after the other; the first bank below
\* the minimum decides.
BanksMeetMinimumFrom(data, min_reviews, b) ==
    IF b > NumBanks THEN TRUE
    ELSE IF RowsOf(data, b) < min_reviews THEN FALSE
    ELSE BanksMeetMinimumFrom(data, min_reviews, b + 1)

\* validate_data_quality(data, min_reviews, max_missing_pct) of utils: each
\* bank's count against the minimum, the share of rows without text
\* against the maximum.  It reports and never raises.
ValidateDataQuality(data, min_reviews, max_missing_pct) ==
    IF ~BanksMeetMinimumFrom(data, min_reviews, 1) THEN FALSE
    ELSE MissingFrom(data, 1) * 100 <= max_missing_pct * TotalFrom(data, 1)

\* The verdict as recorded by the caller.
Verdict(data) ==
    IF ValidateDataQuality(data, MinReviews, MaxMissingPct) THEN "pass" ELSE "fail"

\* DataPreprocessor.run_pipeline(file): cleaning keeps or drops rows.
Preprocessed(data) ==
    {p \in Datasets : \A b \in Banks : /\ p[b].present <= data[b].present
                                       /\ p[b].missing <= data[b].missing}

\* scrape_all_banks writes the raw reviews file only when it collected
\* something; otherwise the file is left as it is.
ScraperSaves(raw, file) == IF raw # EmptyData THEN <<raw>> ELSE file

\* Variant of ReturnAfterGate: the phase returns the verdict of the gate.
ReturnVerdict(verdict) == IF verdict = "pass" THEN "True" ELSE "False"

\* What the phase returns once the gate has given its verdict: the verdict
\* is kept in meets_requirements and the phase returns True whatever it is.
ReturnAfterGate(verdict) == "True"

\* Where an exception can leave the try block of the phase.
FailPoints == {"none", "scrape", "preprocess"}

\* EthiopianBankAnalysis._run_data_collection_phase (main.py): scrape, save
\* the raw file, preprocess, validate, save, record the phase in
\* self.results, return True; any exception records 'failed' and returns
\* False.  The verdict of the gate is recorded, it is not branched on.
MainDataCollectionPhase ==
    /\ plEntry = "main"
    /\ phPc = "start"
    /\ phPc' = "done"
    /\ \E failAt \in FailPoints :
         CASE failAt = "scrape" ->
                /\ phStatus' = "failed" /\ phReturn' = "False"
                /\ UNCHANGED <<phProcessed, phVerdict, phReported, phMetrics,
                               phRawCsv, phProcessedCsv>>
           [] failAt = "preprocess" ->
                /\ phRawCsv' = <<phRaw>>
                /\ phStatus' = "failed" /\ phReturn' = "False"
                /\ UNCHANGED <<phProcessed, phVerdict, phReported, phMetrics,
                               phProcessedCsv>>
           [] OTHER ->
                \E processed \in Preprocessed(phRaw) :
                    /\ phRawCsv' = <<phRaw>>
                    /\ phProcessed' = <<processed>>
                    /\ phVerdict' = Verdict(processed)
                    /\ phReported' = Verdict(processed)
                    /\ phMetrics' = TRUE
                    /\ phProcessedCsv' = <<processed>>
                    /\ phStatus' = "completed"
                    /\ phReturn' = ReturnAfterGate(Verdict(processed))
    /\ UNCHANGED <<phRaw, collectorVars, recordVars, resolverVars, pipelineVars>>

\* AnalysisRunner._run_data_phase (run_analysis.py): the phase does not
\* write the raw file itself (the scraper does), the verdict only goes to
\* the progress bar, and only when show_progress is set.
RunnerDataPhase ==
    /\ plEntry = "runner"
    /\ phPc = "start"
    /\ phPc' = "done"
    /\ \E failAt \in FailPoints, show_progress \in BOOLEAN :
         LET file == ScraperSaves(phRaw, phRawCsv) IN
         CASE failAt = "scrape" ->
                /\ phReturn' = "False"
                /\ UNCHANGED <<phProcessed, phVerdict, phReported, phMetrics,
                               phRawCsv, phProcessedCsv>>
           [] failAt = "preprocess" \/ file = <<>> ->  \* no file: read_csv raises
                /\ phRawCsv' = file
                /\ phReturn' = "False"
                /\ UNCHANGED <<phProcessed, phVerdict, phReported, phMetrics,
                               phProcessedCsv>>
           [] OTHER ->
                \E processed \in Preprocessed(file[1]) :
                    /\ phRawCsv' = file
                    /\ phProcessed' = <<processed>>
                    /\ phVerdict' = Verdict(processed)
                    /\ phReported' = IF show_progress THEN Verdict(processed)
                                                      ELSE "none"
                    /\ phMetrics' = TRUE
                    /\ phProcessedCsv' = <<processed>>
                    /\ phReturn' = ReturnAfterGate(Verdict(processed))
    /\ UNCHANGED <<phRaw, phStatus, collectorVars, recordVars, resolverVars,
                   pipelineVars>>

\* The scraper of the phase may return any data set.
InitDataPhase ==
    /\ InitCollector
    /\ bankNames = Banks
    /\ phPc = "start"
    /\ phRaw \in Datasets
    /\ phProcessed = <<>>
    /\ phVerdict = "none"
    /\ phReported = "none"
    /\ phMetrics = FALSE
    /\ phRawCsv = <<>>
    /\ phProcessedCsv = <<>>
    /\ phStatus = "none"
    /\ phReturn = "none"
    /\ RecordIdle
    /\ InitResolver
    /\ plEntry \in {"main", "runner"}
    /\ LaterPhasesIdle

NextDataPhase == MainDataCollectionPhase \/ RunnerDataPhase

DataPhaseSpec == InitDataPhase /\ [][NextDataPhase]_vars

\* ------------------------------------------- a run after an earlier run
\* The data set in which every bank has all its rows, each with a text.
FullData == [b \in Banks |-> [present |-> MaxPerBank, missing |-> 0]]

\* What data/raw/raw_reviews.csv can hold when a run starts: nothing, or
\* the records an earlier run collected.
EarlierFiles == {<<>>, <<FullData>>}

\* The data phase is entered with whatever an earlier run left on disk.
InitRerun ==
    /\ InitCollector
    /\ bankNames = Banks
    /\ phPc = "start"
    /\ phRaw \in Datasets
    /\ phProcessed = <<>>
    /\ phVerdict = "none"
    /\ phReported = "none"
    /\ phMetrics = FALSE
    /\ phRawCsv \in EarlierFiles
    /\ phProcessedCsv = <<>>
    /\ phStatus = "none"
    /\ phReturn = "none"
    /\ RecordIdle
    /\ InitResolver
    /\ plEntry \in {"main", "runner"}
    /\ LaterPhasesIdle

RerunSpec == InitRerun /\ [][NextDataPhase]_vars

\* ------------------------------------------------ the complete pipeline
\* What the call of phase p returned ("none" before the call).
Outcome(p) == IF p = 1 THEN phReturn ELSE plOutcome[p]

\* The entry of phase p in self.results['execution_phases'].
StatusOf(p) == IF p = 1 THEN phStatus ELSE plStatus[p]

\* Variant of MayStart: the result of the phase before is not looked at.
MayStartAfterAny(p) == Outcome(p - 1) # "none"

\* The run goes on to phase p: the phase before it has returned and
\* `if not phase_success: return False` did not leave the run.
MayStart(p) == Outcome(p - 1) = "True"

\* Variant of PhaseResult: the phase has no except branch of its own.
PhaseResultPropagate(raised) == IF raised THEN "raised" ELSE "True"

\* What a phase returns: True at the end of its try block, False from its
\* `except Exception` branch.
PhaseResult(raised) == IF raised THEN "False" ELSE "True"

\* The status a phase of main.py records for itself in execution_phases.
PhaseEntry(raised) == IF raised THEN "failed" ELSE "completed"

\* One of _run_sentiment_analysis_phase, _run_thematic_analysis_phase and
\* _run_visualization_phase of main.py, called by run_complete_analysis:
\* the try block runs to its end or an exception is raised somewhere in it.
MainLaterPhase ==
    /\ plEntry = "main"
    /\ plReturn = "none"
    /\ \E p \in LaterPhases, raised \in BOOLEAN :
         /\ plOutcome[p] = "none"
         /\ MayStart(p)
         /\ plOutcome' = [plOutcome EXCEPT ![p] = PhaseResult(raised)]
         /\ plStatus' = [plStatus EXCEPT ![p] = PhaseEntry(raised)]
    /\ UNCHANGED <<plEntry, plReport, plReturn, collectorVars, phaseVars, recordVars,
                   resolverVars>>

\* One of _run_sentiment_phase, _run_thematic_phase and
\* _run_visualization_phase of run_analysis.py, called by the loop of
\* _run_complete_analysis.  The runner keeps no execution_phases.
RunnerLaterPhase ==
    /\ plEntry = "runner"
    /\ plReturn = "none"
    /\ \E p \in LaterPhases, raised \in BOOLEAN :
         /\ plOutcome[p] = "none"
         /\ MayStart(p)
         /\ plOutcome' = [plOutcome EXCEPT ![p] = PhaseResult(raised)]
    /\ UNCHANGED <<plEntry, plStatus, plReport, plReturn, collectorVars, phaseVars,
                   recordVars, resolverVars>>

\* Some phase has returned False, or an exception has left it.
SomePhaseFailed == \E p \in 1..NumPhases : Outcome(p) \in {"False", "raised"}

\* The end of run_complete_analysis (main.py): `return False` after the
\* failing phase; after the fourth phase _generate_final_report and
\* `return True`.  An exception that reaches the try block of the run is
\* logged and raised again.
MainFinish ==
    /\ plEntry = "main"
    /\ plReturn = "none"
    /\ phPc = "done"
    /\ IF \E p \in 1..NumPhases : Outcome(p) = "raised"
         THEN plReturn' = "raised" /\ plReport' = plReport
         ELSE IF SomePhaseFailed
         THEN plReturn' = "False" /\ plReport' = plReport
         ELSE /\ Outcome(NumPhases) = "True"
              /\ \E saved \in BOOLEAN :  \* save_metrics of the report may raise
                   /\ plReport' = saved
                   /\ plReturn' = IF saved THEN "True" ELSE "raised"
    /\ UNCHANGED <<plEntry, plOutcome, plStatus, collectorVars, phaseVars, recordVars,
                   resolverVars>>

\* The end of _run_complete_analysis (run_analysis.py): `return False`
\* after the failing phase, `return True` after the loop; run() turns an
\* exception into False.  There is no final report.
RunnerFinish ==
    /\ plEntry = "runner"
    /\ plReturn = "none"
    /\ phPc = "done"
    /\ IF SomePhaseFailed
         THEN plReturn' = "False"
         ELSE Outcome(NumPhases) = "True" /\ plReturn' = "True"
    /\ UNCHANGED <<plEntry, plOutcome, plStatus, plReport, collectorVars, phaseVars,
                   recordVars, resolverVars>>

NextPipeline ==
    \/ MainDataCollectionPhase
    \/ RunnerDataPhase
    \/ MainLaterPhase
    \/ RunnerLaterPhase
    \/ MainFinish
    \/ RunnerFinish

PipelineSpec == InitDataPhase /\ [][NextPipeline]_vars

\* ------------------------------------------- process_reviews, all fields
\* An entry of a raw record that may be missing: <<>> or <<value>>.
Optional(S) == {<<>>} \cup {<<v>> : v \in S}

\* review.get(key, default).
Get(entry, default) == IF entry = <<>> THEN default ELSE entry[1]

\* The raw records of the upstream source: a review id, a score of 1 to 5
\* stars and a thumbs-up count, each of which may be missing.
RawRecords ==
    [reviewId : RawIds, score : Optional(1..MaxScore),
     thumbsUpCount : Optional(0..MaxThumbs)]

\* The lists handed to process_reviews.
RawLists == {<<>>} \cup {<<r>> : r \in RawRecords}

\* The processed record of one raw record (the fields the claims speak of;
\* ProcessReviews above is its restriction to review_id and bank_code).
ProcessRecord(raw, b) ==
    [review_id |-> ReviewId(raw.reviewId),
     rating    |-> Get(raw.score, 0),
     thumbs_up |-> Get(raw.thumbsUpCount, 0),
     bank_code |-> BankCodes[b],
     source    |-> "Google Play"]

\* process_reviews(reviews_data, bank_code) on complete raw records.
ProcessRecords(reviews_data, b) ==
    [k \in 1..Len(reviews_data) |-> ProcessRecord(reviews_data[k], b)]

\* One call of process_reviews.
ProcessReviewsCall ==
    /\ recPc = "start"
    /\ recPc' = "done"
    /\ recOut' = ProcessRecords(recIn, recBank)
    /\ UNCHANGED <<recIn, recBank, collectorVars, phaseVars, resolverVars,
                   pipelineVars>>

InitRecord ==
    /\ InitCollector
    /\ bankNames = Banks
    /\ PhaseIdle
    /\ recPc = "start"
    /\ recIn \in RawLists
    /\ recBank \in Banks
    /\ recOut = <<>>
    /\ InitResolver
    /\ PipelineIdle

NextRecord == ProcessReviewsCall

RecordSpec == InitRecord /\ [][NextRecord]_vars

\* ------------------------- the variant with candidate app ids per bank
\* (EthiopianBankReviewScraper, kept in data_collection.py as a comment
\* block; PlayStoreScraper above has one app id per bank.)
Candidates == 1..NumCandidates

\* Variant of KeepProbing: the `return app_id` after a successful probe is
\* missing, so the loop goes through all candidates.
KeepProbingAfterSuccess(ok, c) == c < NumCandidates

\* find_working_app_id goes on to the next candidate: the probe of
\* candidate c raised (`continue`) and there is a next candidate.
KeepProbing(ok, c) == ~ok /\ c < NumCandidates

\* batch_count = min(100, count - len(scraped_reviews)).
BatchCount(scraped) ==
    IF BatchMax < VariantCount - scraped THEN BatchMax ELSE VariantCount - scraped

\* The loop of scrape_all_banks turns to the next bank (after time.sleep(2)).
ToNextBank ==
    /\ rvBank' = rvBank + 1
    /\ rvCand' = 1
    /\ rvScraped' = 0
    /\ rvToken' = "None"
    /\ rvPc' = IF rvBank + 1 \in Banks THEN "find" ELSE "done"

\* One iteration of the loop of find_working_app_id: app() for candidate
\* rvCand.  An answer selects the candidate and returns it, and the bank is
\* scraped next; after the last failure None is returned and the bank is
\* skipped.
ProbeCandidate ==
    /\ rvPc = "find"
    /\ \E ok \in BOOLEAN :
         /\ probeLog' = [probeLog EXCEPT ![rvBank] = Append(@, ok)]
         /\ workingAppIds' = IF ok THEN [workingAppIds EXCEPT ![rvBank] = rvCand]
                                  ELSE workingAppIds
         /\ IF KeepProbing(ok, rvCand)
              THEN /\ rvCand' = rvCand + 1
                   /\ UNCHANGED <<rvPc, rvBank, rvScraped, rvToken>>
              ELSE IF workingAppIds'[rvBank] # 0
                   THEN /\ rvPc' = "scrape"
                        /\ UNCHANGED <<rvBank, rvCand, rvScraped, rvToken>>
                   ELSE ToNextBank
    /\ UNCHANGED <<rvReviews, collectorVars, phaseVars, recordVars, pipelineVars>>

\* One iteration of the while loop of scrape_bank_reviews: reviews() for
\* the next page.  The loop ends when the request raises, the page is
\* empty, the token is None or count records are there; the records are
\* then appended to all_reviews and the next bank follows.
FetchPage ==
    /\ rvPc = "scrape"
    /\ rvScraped < VariantCount
    /\ \/ \* the request raises: `break`
          /\ rvReviews' = rvReviews \o [k \in 1..rvScraped |-> rvBank]
          /\ ToNextBank
       \/ \E n \in 0..BatchCount(rvScraped), token \in Tokens :
            IF n > 0 /\ token # "None" /\ rvScraped + n < VariantCount
            THEN /\ rvScraped' = rvScraped + n
                 /\ rvToken' = token
                 /\ UNCHANGED <<rvPc, rvBank, rvCand, rvReviews>>
            ELSE /\ rvReviews' = rvReviews \o [k \in 1..(rvScraped + n) |-> rvBank]
                 /\ ToNextBank
    /\ UNCHANGED <<workingAppIds, probeLog, collectorVars, phaseVars, recordVars,
                   pipelineVars>>

InitResolverSpec ==
    /\ InitCollector
    /\ bankNames = Banks
    /\ PhaseIdle
    /\ RecordIdle
    /\ InitResolver
    /\ PipelineIdle

NextResolver == ProbeCandidate \/ FetchPage

ResolverSpec == InitResolverSpec /\ [][NextResolver]_vars

\* ------------------------------------------------- vocabulary of the claims
\* The records of bank b in all_reviews, in order.
RecordsOf(b) == SelectSeq(allReviews, LAMBDA r : r.bank_code = BankCodes[b])

\* The record ids of a sequence of processed records, in order.
Ids(recs) == [k \in 1..Len(recs) |-> recs[k].review_id]

\* Number of distinct record ids collected for bank b.
UniqueCount(b) == Cardinality({RecordsOf(b)[k].review_id : k \in 1..Len(RecordsOf(b))})

NoDuplicates(s) == \A j, k \in 1..Len(s) : j # k => s[j] # s[k]

RECURSIVE FirstSeen(_)
\* s with every later occurrence of an element removed.
FirstSeen(s) ==
    IF s = <<>> THEN <<>>
    ELSE LET front == FirstSeen(SubSeq(s, 1, Len(s) - 1))
             last == s[Len(s)]
         IN  IF \E k \in 1..Len(front) : front[k] = last THEN front ELSE Append(front, last)

\* The loop of phase 2 has left bank b behind.
Finished(b) == pc = "done" \/ (pc = "fetch" /\ bankIdx > b)

\* The probe of bank b succeeded.
Resolved(b) == \E k \in 1..Len(appInfoList) : appInfoList[k] = b

\* Every attempt of the fetch of bank b failed.
Exhausted(b) == ~succeeded[b] /\ attemptsMade[b] >= MaxRetries

\* ------------------------------------------------------------------ claims
\* C1: for every scrape_reviews call (one per bank) the number of upstream
\* requests issued is at most max_retries, whatever fails.
C1_AtMostMaxRetries == \A b \in Banks : attemptsMade[b] <= MaxRetries

\* C1 witness: a call whose max_retries attempts all failed has ended.
C1_Witness == \E b \in Banks : Exhausted(b) /\ Finished(b)

\* C2: the final record collection of every bank holds no two records with
\* the same record id.
C2_NoDuplicateIds == \A b \in Banks : Finished(b) => NoDuplicates(Ids(RecordsOf(b)))

\* C3: no review fetch is ever issued for a bank whose probe did not succeed.
C3_NoFetchWithoutProbe == \A b \in Banks : attemptsMade[b] > 0 => Resolved(b)

\* C4: whatever happened to the other banks (probe failure, retries
\* exhausted), every bank the loop has passed was fetched, its records in
\* all_reviews are exactly the processed records of its own answer, and the
\* run never ends before every bank has been passed.
C4_EntitiesIndependent ==
    /\ \A b \in Banks :
         Finished(b) => /\ attemptsMade[b] >= 1
                        /\ RecordsOf(b) = ProcessReviews(rawOf[b], b)
    /\ pc \in {"probe", "fetch", "done"}
    /\ pc = "done" => bankIdx = NumBanks + 1

\* C4 witness: a bank failed its probe and all its fetch attempts, and a
\* bank handled before it and a bank handled after it both kept records.
C4_Witness ==
    /\ pc = "done"
    /\ \E a, b, c \in Banks :
         /\ b < a /\ a < c
         /\ ~Resolved(a) /\ Exhausted(a)
         /\ RecordsOf(b) # <<>> /\ RecordsOf(c) # <<>>

\* C5: a request is issued for a bank only while the number of unique
\* records collected for it is below reviews_per_bank.
C5_NoRequestOnceTargetMet ==
    [][\A b \in Banks :
          attemptsMade'[b] > attemptsMade[b] => UniqueCount(b) < ReviewsPerBank]_vars

\* C5 witness: a bank met the target and the run went on to request the
\* next bank.
C5_Witness ==
    \E b \in Banks : /\ UniqueCount(b) >= ReviewsPerBank
                     /\ b < NumBanks /\ attemptsMade[b + 1] > 0

\* C6: when all max_retries attempts of a fetch fail, nothing escapes: the
\* bank ends with no records and a warning, and the loop has gone on to the
\* next bank (or the run is done).
C6_ExhaustionIsNotFatal ==
    /\ pc # "crashed"
    /\ \A b \in Banks :
         Exhausted(b) => b \in warned /\ RecordsOf(b) = <<>> /\ Finished(b)

\* C6 witness: after a bank's retries were exhausted the next bank is fetched.
C6_Witness ==
    \E b \in Banks : Exhausted(b) /\ b < NumBanks /\ attemptsMade[b + 1] > 0

\* C7: any two consecutive successful upstream calls (probes and fetches)
\* are at least the polite delay apart on the logical clock.
C7_MinIntervalBetweenSuccesses == lastGap = -1 \/ lastGap >= BankDelay

\* C8: the records of every bank are the first occurrences of the ids of
\* its raw stream, in first-seen order.
C8_FirstSeenWins ==
    \A b \in Banks :
        Finished(b) => Ids(RecordsOf(b)) = FirstSeen(Ids(ProcessReviews(rawOf[b], b)))

\* C9: a bank that ends with fewer unique records than reviews_per_bank has
\* had its ordering strategy exhausted (the answer was shorter than the
\* count asked for) or abandoned (all attempts failed).
C9_TargetIsFloor ==
    \A b \in Banks :
        (Finished(b) /\ UniqueCount(b) < ReviewsPerBank)
            => \/ succeeded[b] /\ Len(rawOf[b]) < FetchCount
               \/ Exhausted(b)

\* C10: once a fetch of a bank has answered (with any page, the empty one
\* included, and any continuation token, None included), the same request
\* is never issued again for that bank.
C10_NoRequestAfterAnswer ==
    [][\A b \in Banks : succeeded[b] => attemptsMade'[b] = attemptsMade[b]]_vars

\* C10 witness: a bank answered with an empty page and the next upstream
\* request was for the next bank.
C10_Witness ==
    \E b \in Banks : /\ succeeded[b] /\ rawOf[b] = <<>>
                     /\ attemptsMade[b] = 1
                     /\ b < NumBanks /\ attemptsMade[b + 1] > 0

\* C11: the final count of a bank is the number of distinct record ids
\* among the records fetched for it (an id met several times counts once).
C11_CountIsDistinctIds ==
    \A b \in Banks :
        Finished(b) =>
            Len(RecordsOf(b)) =
                Cardinality({ReviewId(rawOf[b][k]) : k \in 1..Len(rawOf[b])})

\* ---- the per-entity state machine of C16
\* The state of bank b; RESOLVING and the strategy outcomes are passed
\* through inside one step.
EntityState(b) ==
    IF Finished(b) THEN "DONE"
    ELSE IF attemptsMade[b] > 0 THEN "FETCHING"
    ELSE IF probesMade[b] = 0 THEN "UNRESOLVED"
    ELSE IF Resolved(b) THEN "RESOLVED"
    ELSE "UNRESOLVABLE"

\* The moves of the state machine (a fetch that ends in its first step
\* takes RESOLVED straight to DONE).
EntityMoves ==
    {<<"UNRESOLVED", "RESOLVED">>, <<"UNRESOLVED", "UNRESOLVABLE">>,
     <<"RESOLVED", "FETCHING">>, <<"RESOLVED", "DONE">>,
     <<"FETCHING", "DONE">>}

\* C16: every bank follows the state machine, UNRESOLVABLE and DONE are
\* terminal, and no upstream call is issued for a bank in a terminal state.
C16_EntityStateMachine ==
    [][\A b \in Banks :
          /\ \/ EntityState(b)' = EntityState(b)
             \/ <<EntityState(b), EntityState(b)'>> \in EntityMoves
          /\ EntityState(b) \in {"UNRESOLVABLE", "DONE"}
                => /\ probesMade'[b] = probesMade[b]
                   /\ attemptsMade'[b] = attemptsMade[b]]_vars

\* C17: a run that aborts on a bank without a configured name has issued no
\* upstream call (probe or fetch) for any bank.
C17_ConfigErrorBeforeAnyCall ==
    pc = "crashed" =>
        \A b \in Banks : probesMade[b] = 0 /\ attemptsMade[b] = 0

\* C18: once the cancellation signal is raised no further page request is
\* issued, and the run does not end in a fault.
C18_NoRequestAfterCancel ==
    [][cancelRequested => (attemptsMade' = attemptsMade /\ pc' # "crashed")]_vars

\* C20: two consecutive successful upstream calls made for different banks
\* are at least the polite delay apart (one gate for all banks).
C20_IntervalAcrossEntities ==
    (lastPair[1] # 0 /\ lastPair[1] # lastPair[2]) => lastGap >= BankDelay

C14_GateCountsTotalRows ==
    phVerdict # "none" =>
        /\ (TotalFrom(phProcessed[1], 1) >= MinReviews /\ MissingFrom(phProcessed[1], 1) = 0)
               => phVerdict = "pass"
        /\ TotalFrom(phProcessed[1], 1) < MinReviews => phVerdict = "fail"

\* C19: every record process_reviews returns has a rating in 1..5 and a
\* thumbs-up count of at least 0, also when the raw record lacks the score
\* or the thumbs-up entry.
C19_RatingAndUpvotesInRange ==
    \A k \in 1..Len(recOut) :
        /\ recOut[k].rating \in 1..MaxScore
        /\ recOut[k].thumbs_up >= 0

\* find_working_app_id has returned for bank b.
Probed(b) == rvBank > b \/ (rvBank = b /\ rvPc # "find")

IsPrefix(s, t) == Len(s) <= Len(t) /\ SubSeq(t, 1, Len(s)) = s

\* C21: no step of the collector (fetch, retry, failure, work on another
\* bank, saving) changes or removes a record that is in all_reviews, and
\* what scrape_all_banks returns and saves is all_reviews as it stands.
C21_MergedRecordsImmutable ==
    [][/\ IsPrefix(allReviews, allReviews')
       /\ returnedDf' # <<>> => returnedDf'[1] = allReviews'
       /\ (returnedDf' # <<>> /\ allReviews' # <<>>) => savedCsv' = <<allReviews'>>
       /\ returnedDf # <<>> => UNCHANGED <<returnedDf, savedCsv, allReviews>>]_vars

\* C21 witness: the first bank's records were merged, the second bank then
\* failed all its attempts, the third bank added records, and the run
\* returned the merged records.
C21_Witness ==
    /\ returnedDf = <<allReviews>>
    /\ RecordsOf(1) # <<>> /\ RecordsOf(3) # <<>>
    /\ Exhausted(2)

\* The count a reviews() request of scrape_reviews asks for.
AskedPerRequest == FetchCount

\* C22: every reviews() request issued by scrape_reviews asks for at most
\* the maximum page size (the cap of min(100, ...) in the paging variant),
\* whatever reviews_per_bank is.
C22_PageSizeBounded ==
    \A b \in Banks : attemptsMade[b] > 0 => AskedPerRequest <= BatchMax

\* C22 for the paging variant: every request of scrape_bank_reviews asks
\* for at most the maximum page size and for no more than is still missing.
C22_VariantPageSizeBounded ==
    rvPc = "scrape" =>
        /\ BatchCount(rvScraped) <= BatchMax
        /\ BatchCount(rvScraped) <= VariantCount - rvScraped

\* Number of backoff delays applied so far in the fetch of bank b: one
\* after every failed attempt but the one that ended the call.
Waits(b) ==
    IF attemptsMade[b] = 0 THEN 0
    ELSE IF Finished(b) THEN attemptsMade[b] - 1
    ELSE attemptsMade[b]

\* C23: a step that makes an attempt for a bank and leaves the call open
\* (the attempt failed, another follows) advances the clock by the backoff
\* delay; a step whose attempt ends the call (an answer, or the last
\* failure) applies no backoff, only the delay between banks; so the clock
\* is always the delays between banks passed plus one backoff per attempt
\* that was followed by another, and a call whose max_retries attempts all
\* failed has waited max_retries - 1 times.
C23_BackoffBetweenAttemptsOnly ==
    [][/\ \A b \in Banks :
            attemptsMade'[b] > attemptsMade[b] =>
                /\ clock' - clock = (IF Finished(b)' THEN BankDelay ELSE RetrySleep)
                /\ (Finished(b)' /\ ~succeeded'[b]) => attemptsMade'[b] = MaxRetries
       /\ clock' = BankDelay * Cardinality({b \in Banks : Finished(b)'})
                    + RetrySleep * (Waits(1)' + Waits(2)' + Waits(3)')]_vars

\* C23 witness: all attempts of the first bank failed and the call ended
\* after exactly max_retries - 1 backoff delays.
C23_Witness ==
    /\ Exhausted(1) /\ Finished(1)
    /\ attemptsMade[2] = 0
    /\ clock = RetrySleep * (MaxRetries - 1) + BankDelay

\* The scraper has been constructed and scrape_all_banks has not made a step.
NewlyConstructed ==
    /\ pc = "probe" /\ bankIdx = 1
    /\ \A b \in Banks : probesMade[b] = 0 /\ attemptsMade[b] = 0

C25_CollectionTerminates ==
    <>(/\ returnedDf # <<>>
       /\ pc = "done"
       /\ \A b \in Banks : Finished(b))

\* C25 witness: every probe and every fetch attempt of every bank failed,
\* and the run has returned.
C25_Witness ==
    /\ returnedDf # <<>>
    /\ \A b \in Banks : ~Resolved(b) /\ Exhausted(b)

\* C26: a bank is probed at most once in a run; when phase 2 starts, and
\* so before any bank's first fetch, every bank has been probed exactly
\* once; and a step never probes a bank whose fetch has started.
C26_ResolvedOncePerRun ==
    [][\A b \in Banks :
          /\ probesMade'[b] <= 1
          /\ attemptsMade'[b] > 0 => probesMade'[b] = 1
          /\ pc' \in {"fetch", "done"} => probesMade'[b] = 1
          /\ attemptsMade[b] > 0 => probesMade'[b] = probesMade[b]]_vars

\* C26 witness: the first bank was probed once, its fetch needed all its
\* attempts and answered on the last one, and the run returned with every
\* bank probed once.
C26_Witness ==
    /\ returnedDf # <<>>
    /\ \A b \in Banks : probesMade[b] = 1
    /\ attemptsMade[1] = MaxRetries /\ succeeded[1]

\* C27: within the scrape_reviews call of a bank, a request is issued only
\* while no attempt has answered; the answer ends the call in the same
\* step and its records reach all_reviews one for one, in order; and a
\* call ends without records only if all max_retries attempts failed or
\* the answer itself was empty.
C27_FirstSuccessEndsCall ==
    [][\A b \in Banks :
          /\ attemptsMade'[b] > attemptsMade[b] => ~succeeded[b]
          /\ succeeded'[b] =>
                /\ Finished(b)'
                /\ Len(RecordsOf(b)') = Len(rawOf'[b])
                /\ \A k \in 1..Len(rawOf'[b]) :
                      RecordsOf(b)'[k].review_id = ReviewId(rawOf'[b][k])
          /\ (Finished(b)' /\ ~succeeded'[b]) => attemptsMade'[b] = MaxRetries
          /\ (Finished(b)' /\ RecordsOf(b)' = <<>>) =>
                \/ ~succeeded'[b] /\ attemptsMade'[b] = MaxRetries
                \/ succeeded'[b] /\ rawOf'[b] = <<>>]_vars

\* C27 witness: the first bank's call ended empty after max_retries failed
\* attempts, the second bank's first attempt answered with a full page and
\* no second request followed.
C27_Witness ==
    /\ Finished(1) /\ Exhausted(1) /\ RecordsOf(1) = <<>>
    /\ Finished(2) /\ succeeded[2] /\ attemptsMade[2] = 1
    /\ Len(RecordsOf(2)) = FetchCount

\* Phase p has been called.
Started(p) == Outcome(p) # "none"

\* C28: a phase is called only when every phase before it has returned
\* True and no phase after it has been called (so the phases run in the
\* order data collection, sentiment analysis, thematic analysis,
\* visualization, and none is called after a failing one); a run in which
\* a phase failed returns False; the run returns True only after all four
\* phases returned True; and the final report is generated only then.
C28_PhasesInOrder ==
    [][/\ \A p \in 1..NumPhases :
            (~Started(p) /\ Started(p)') =>
                /\ \A q \in 1..(p - 1) : Outcome(q) = "True"
                /\ \A q \in (p + 1)..NumPhases : ~Started(q)'
                /\ plReturn = "none"
       /\ (SomePhaseFailed' /\ plReturn' # "none") => plReturn' = "False"
       /\ plReturn' = "True" => \A p \in 1..NumPhases : Outcome(p)' = "True"
       /\ plReport' => \A p \in 1..NumPhases : Outcome(p)' = "True"]_vars

\* C28 witness: a run of main.py whose third phase failed: the fourth
\* phase was never called, no report was generated, the run returned False.
C28_Witness ==
    /\ plEntry = "main"
    /\ Outcome(1) = "True" /\ Outcome(2) = "True" /\ Outcome(3) = "False"
    /\ ~Started(4)
    /\ ~plReport
    /\ plReturn = "False"

\* C29: no exception leaves a phase (its call returns True or False); in
\* main.py a phase that returned True has the entry 'completed', one that
\* returned False has the entry 'failed', one that was not called has no
\* entry; and no step changes the entry a phase has recorded.
C29_PhaseContainsItsFailure ==
    [][\A p \in 1..NumPhases :
          /\ Outcome(p)' \in {"none", "True", "False"}
          /\ plEntry = "main" =>
                /\ Outcome(p)' = "True" <=> StatusOf(p)' = "completed"
                /\ Outcome(p)' = "False" <=> StatusOf(p)' = "failed"
                /\ ~Started(p)' <=> StatusOf(p)' = "none"
          /\ StatusOf(p) # "none" => StatusOf(p)' = StatusOf(p)]_vars

\* C29 witness: in a run of main.py the data phase completed and an
\* exception was raised in the sentiment phase: it returned False and the
\* entries are completed, failed, none, none.
C29_Witness ==
    /\ plEntry = "main"
    /\ StatusOf(1) = "completed" /\ StatusOf(2) = "failed"
    /\ StatusOf(3) = "none" /\ StatusOf(4) = "none"
    /\ Outcome(2) = "False"
    /\ plReturn = "False"

\* C30: whenever preprocessing has produced its result, the raw reviews
\* file it read holds exactly what the scraper of this run returned (also
\* when that is nothing), so the processed rows are rows of this run.
C30_PreprocessingReadsThisRun ==
    phProcessed # <<>> =>
        /\ phRawCsv = <<phRaw>>
        /\ phProcessed[1] \in Preprocessed(phRaw)

====
